---- MODULE Spec2Model ----
(***************************************************************************)
(* The hwui Snapshot stack (libs/hwui/Snapshot.cpp): nested save/restore   *)
(* of transform and clip, with the clip kept as a rectangle and promoted   *)
(* to a region only when an operation needs it.                            *)
(*                                                                         *)
(* Coordinates.  hwui rectangles hold floats; android::Rect and            *)
(* android::Region hold int32.  A float coordinate is modelled as an       *)
(* integer count of half pixels (3 is 1.5f), an int32 coordinate as an     *)
(* integer count of pixels.  ToInt is the float -> int32 conversion the    *)
(* android::Rect constructor performs (truncation toward zero), ToFloat    *)
(* the int32 -> float conversion.                                          *)
(*                                                                         *)
(* Pointers.  A Snapshot owns mTransformRoot, mClipRectRoot and            *)
(* mClipRegionRoot; its transform, clipRect and clipRegion                 *)
(* members are pointers to such storage, its own or an ancestor's.  The    *)
(* stack is a sequence of nodes; a pointer is the index of the node whose  *)
(* storage it points to, and 0 is NULL.                                    *)
(*                                                                         *)
(* A region is the set of the pixel cells <<x, y>> it covers.              *)
(***************************************************************************)
EXTENDS Integers, Sequences, FiniteSets, TLC

VARIABLES
    stack,                \* the chain of Snapshots, root first, current last
    STENCIL_BUFFER_SIZE,  \* the build-time region-mode switch (0 is disabled)
    call,                 \* the last call made on the current node: its name, its
                          \* op, whether clipRegion was non-null when it was made,
                          \* the bool it returned, the rectangle getLocalClip
                          \* returned (the content of the scratch member mLocalClip)
    hist                  \* per node: the saveFlags it was built with, and its
                          \* parent's visible state at that moment

vars == <<stack, STENCIL_BUFFER_SIZE, call, hist>>

----------------------------------------------------------------------------
(* Bounds and inputs *)

\* Deepest chain of the aliasing specification (every save mode).
MaxDepth == 2

\* Deepest chain of the save/restore specification (fully copying saves).
MaxSaveDepth == 3

NULL == 0

MkRect(l, t, r, b) == [left |-> l, top |-> t, right |-> r, bottom |-> b]

\* Well-formed input rectangles (left <= right, top <= bottom), in half pixels.
\* The single-node specification draws from all of them.
ClipRects ==
    { MkRect(0, 0, 4, 4),     \* a 2x2 pixel square
      MkRect(0, 0, 2, 2),     \* its top-left pixel
      MkRect(0, 0, 4, 2),     \* its top half
      MkRect(1, 0, 4, 4),     \* a fractional left edge (0.5f)
      MkRect(2, -1, 6, 2),    \* partial overlap, negative fractional top
      MkRect(2, 2, 4, 4) }    \* its bottom-right pixel, disjoint from the top-left

\* The chain specifications draw from these.
StackRects == { MkRect(0, 0, 4, 4), MkRect(0, 0, 2, 2) }

\* Translations handed to resetTransform, in half pixels.
ClipOffsets == { <<1, 0, 2>> }

StackOffsets == { <<0, 0, 2>> }

\* Deepest chain of the transform specification.
MaxXformDepth == 2

\* Its rectangles and translations, in half pixels: the square (2,2,4,4) with
\* the translation (1,1.5,0), and the 2x2 square with a half-pixel shift.
XformRects == { MkRect(4, 4, 8, 8), MkRect(0, 0, 4, 4) }

XformOffsets == { <<2, 3, 0>>, <<1, 0, 2>> }

\* The operations its caller-space clips use.
XformOps == { "kReplace_Op" }

\* Deepest chain of the node-state specification.
MaxNodeDepth == 2

\* Its rectangles.
NodeRects == { MkRect(0, 0, 2, 2) }

\* The layer a renderer may redirect a node to: its Layer, its fbo name, its
\* dirty region, and the viewport, height and alpha that go with it.
LayerTarget ==
    [ layer |-> 1, fbo |-> 1, region |-> 1, viewport |-> MkRect(0, 0, 4, 4),
      height |-> 2, alpha |-> 0 ]

Ops == { "kDifference_Op", "kIntersect_Op", "kUnion_Op", "kXOR_Op",
         "kReverseDifference_Op", "kReplace_Op" }

SaveFlagSets == SUBSET { "kMatrix_SaveFlag", "kClip_SaveFlag" }

\* Values an uninitialized int member may hold.
UninitInts == { 0, 1 }

----------------------------------------------------------------------------
(* hwui Rect *)

Min(a, b) == IF a < b THEN a ELSE b
Max(a, b) == IF a > b THEN a ELSE b

EmptyRect == MkRect(0, 0, 0, 0)

RectIsEmpty(rc) == rc.left >= rc.right \/ rc.top >= rc.bottom

\* Rect::intersect: the overlap when it is non-empty (true), else unchanged (false).
RectIntersect(rc, r) ==
    LET tmp == MkRect(Max(rc.left, r.left), Max(rc.top, r.top),
                      Min(rc.right, r.right), Min(rc.bottom, r.bottom))
    IN  IF RectIsEmpty(tmp) THEN [rect |-> rc, ret |-> FALSE]
        ELSE [rect |-> tmp, ret |-> TRUE]

\* Rect::unionWith: the bounding box of both.
RectUnionWith(rc, r) ==
    MkRect(Min(rc.left, r.left), Min(rc.top, r.top),
           Max(rc.right, r.right), Max(rc.bottom, r.bottom))

----------------------------------------------------------------------------
(* android::Rect and android::Region *)

ToInt(v) == IF v >= 0 THEN v \div 2 ELSE -((-v) \div 2)
ToFloat(i) == i * 2

\* android::Rect tmp(left, top, right, bottom) built from floats.
AndroidRect(l, t, r, b) == MkRect(ToInt(l), ToInt(t), ToInt(r), ToInt(b))

\* Region::set(rect): the cells the int rectangle covers.
RegionOfRect(ar) ==
    { <<x, y>> \in (ar.left .. ar.right - 1) \X (ar.top .. ar.bottom - 1) : TRUE }

SetMin(S) == CHOOSE m \in S : \A x \in S : m <= x
SetMax(S) == CHOOSE m \in S : \A x \in S : m >= x

\* Region::bounds of a non-empty region.
RegionBounds(reg) ==
    LET xs == { c[1] : c \in reg }
        ys == { c[2] : c \in reg }
    IN  MkRect(SetMin(xs), SetMin(ys), SetMax(xs) + 1, SetMax(ys) + 1)

RegionIsEmpty(reg) == reg = {}

\* Region::isRect of a non-empty region.
RegionIsRect(reg) == reg = RegionOfRect(RegionBounds(reg))

RegionOr(reg, ar) == reg \cup RegionOfRect(ar)
RegionAnd(reg, ar) == reg \cap RegionOfRect(ar)
RegionXor(reg, ar) == (reg \ RegionOfRect(ar)) \cup (RegionOfRect(ar) \ reg)
RegionSubtract(reg, ar) == reg \ RegionOfRect(ar)

----------------------------------------------------------------------------
(* mat4, restricted to a uniform scale of x and y followed by a translation *)
(* x -> scale * x + tx.  Snapshot.cpp itself only loads the identity, a     *)
(* translation or a copy; a scale of 0 (a matrix with no inverse) can only   *)
(* come from the renderer, which writes through the transform pointer.       *)

Identity == [scale |-> 1, tx |-> 0, ty |-> 0, tz |-> 0]

LoadTranslate(x, y, z) == [scale |-> 1, tx |-> x, ty |-> y, tz |-> z]

\* mat4::loadInverse of an invertible matrix (the scale is 1 or 0 here).
LoadInverse(m) == [scale |-> 1, tx |-> -m.tx, ty |-> -m.ty, tz |-> -m.tz]

\* What loadInverse may leave in the local `inverse` when the matrix has no
\* inverse: the library gives no result for it, so either the freshly
\* constructed identity is left as it is or a degenerate all-zero matrix is
\* written.
DegenerateInverses == { Identity, [scale |-> 0, tx |-> 0, ty |-> 0, tz |-> 0] }

\* The outcomes of inverse.loadInverse(m).
Inverses(m) == IF m.scale # 0 THEN { LoadInverse(m) } ELSE DegenerateInverses

\* mat4::scale(k, k, 1): the scale is applied before the matrix.
Scaled(m, k) == [m EXCEPT !.scale = @ * k]

MapRect(m, r) ==
    MkRect(m.scale * r.left + m.tx, m.scale * r.top + m.ty,
           m.scale * r.right + m.tx, m.scale * r.bottom + m.ty)

----------------------------------------------------------------------------
(* Dereferencing a node's pointers *)

Top == Len(stack)

ClipRectOf(st, n) == st[st[n].clipRect].mClipRectRoot

TransformOf(st, n) == st[st[n].transform].mTransformRoot

ClipRegionOf(st, n) ==
    IF st[n].clipRegion = NULL THEN {} ELSE st[st[n].clipRegion].mClipRegionRoot

StoreClipRect(st, n, rc) == [st EXCEPT ![st[n].clipRect].mClipRectRoot = rc]

StoreClipRegion(st, n, reg) == [st EXCEPT ![st[n].clipRegion].mClipRegionRoot = reg]

----------------------------------------------------------------------------
(* Constructors *)

\* Snapshot::Snapshot()
RootSnapshot(h) ==
    [ flags |-> {}, previous |-> NULL, layer |-> NULL, fbo |-> 0,
      invisible |-> FALSE, empty |-> FALSE, alpha |-> 1,
      viewport |-> EmptyRect, height |-> h, region |-> NULL,
      transform |-> 1, clipRect |-> 1, clipRegion |-> NULL,
      mTransformRoot |-> Identity, mClipRectRoot |-> EmptyRect,
      mClipRegionRoot |-> {} ]

\* The body of Snapshot::Snapshot(const sp<Snapshot>& s, int saveFlags), built
\* as node n of the chain st from its parent s; ownMatrix and ownClip are the
\* outcomes of its two tests of saveFlags.
CopySnapshot(st, s, n, ownMatrix, ownClip) ==
    LET p == st[s]
        copyRegion == ownClip /\ STENCIL_BUFFER_SIZE # 0 /\ p.clipRegion # NULL
    IN  [ flags |-> p.flags \cap { "kFlagFboTarget" },
          previous |-> s, layer |-> NULL, fbo |-> p.fbo,
          invisible |-> p.invisible, empty |-> FALSE, alpha |-> p.alpha,
          viewport |-> p.viewport, height |-> p.height,
          region |-> IF "kFlagFboTarget" \in p.flags THEN p.region ELSE NULL,
          transform |-> IF ownMatrix THEN n ELSE p.transform,
          mTransformRoot |-> IF ownMatrix THEN TransformOf(st, s) ELSE Identity,
          clipRect |-> IF ownClip THEN n ELSE p.clipRect,
          mClipRectRoot |-> IF ownClip THEN ClipRectOf(st, s) ELSE EmptyRect,
          clipRegion |-> IF ownClip
                         THEN (IF copyRegion THEN n ELSE NULL)
                         ELSE (IF STENCIL_BUFFER_SIZE # 0 THEN p.clipRegion ELSE NULL),
          mClipRegionRoot |-> IF copyRegion THEN ClipRegionOf(st, s) ELSE {} ]

\* A constructor that also copies empty from the parent.
ChildSnapshotInheritsEmpty(st, s, n, saveFlags) ==
    [CopySnapshot(st, s, n, "kMatrix_SaveFlag" \in saveFlags,
                  "kClip_SaveFlag" \in saveFlags) EXCEPT !.empty = st[s].empty]

\* A constructor that starts from the parent's flags.
ChildSnapshotInheritsFlags(st, s, n, saveFlags) ==
    [CopySnapshot(st, s, n, "kMatrix_SaveFlag" \in saveFlags,
                  "kClip_SaveFlag" \in saveFlags) EXCEPT !.flags = st[s].flags]

\* A constructor that tests the clip bit the wrong way round.
ChildSnapshotClipTestInverted(st, s, n, saveFlags) ==
    CopySnapshot(st, s, n, "kMatrix_SaveFlag" \in saveFlags,
                 "kClip_SaveFlag" \notin saveFlags)

\* Snapshot::Snapshot(const sp<Snapshot>& s, int saveFlags)
ChildSnapshot(st, s, n, saveFlags) ==
    CopySnapshot(st, s, n, "kMatrix_SaveFlag" \in saveFlags,
                 "kClip_SaveFlag" \in saveFlags)

----------------------------------------------------------------------------
(* Clipping *)

\* ensureClipRegion without the #if around its body.
EnsureClipRegionUnguarded(st, n) ==
    IF st[n].clipRegion = NULL
    THEN LET c == ClipRectOf(st, n)
             tmp == AndroidRect(c.left, c.top, c.right, c.bottom)
         IN  [st EXCEPT ![n].clipRegion = n,
                        ![n].mClipRegionRoot = RegionOfRect(tmp)]
    ELSE st

\* Snapshot::ensureClipRegion
EnsureClipRegion(st, n) ==
    IF STENCIL_BUFFER_SIZE # 0 /\ st[n].clipRegion = NULL
    THEN LET c == ClipRectOf(st, n)
             tmp == AndroidRect(c.left, c.top, c.right, c.bottom)
         IN  [st EXCEPT ![n].clipRegion = n,
                        ![n].mClipRegionRoot = RegionOfRect(tmp)]
    ELSE st

\* Snapshot::copyClipRectFromRegion
CopyClipRectFromRegion(st, n) ==
    IF STENCIL_BUFFER_SIZE # 0
    THEN LET reg == ClipRegionOf(st, n)
         IN  IF ~RegionIsEmpty(reg)
             THEN LET bounds == RegionBounds(reg)
                      st1 == StoreClipRect(st, n,
                                 MkRect(ToFloat(bounds.left), ToFloat(bounds.top),
                                        ToFloat(bounds.right), ToFloat(bounds.bottom)))
                  IN  IF RegionIsRect(reg)
                      THEN [StoreClipRegion(st1, n, {}) EXCEPT ![n].clipRegion = NULL]
                      ELSE st1
             ELSE [StoreClipRect(st, n, EmptyRect) EXCEPT ![n].clipRegion = NULL]
    ELSE st

\* Snapshot::clipRegionOr
ClipRegionOr(st, n, l, t, r, b) ==
    IF STENCIL_BUFFER_SIZE # 0
    THEN LET tmp == AndroidRect(l, t, r, b)
         IN  [st |-> CopyClipRectFromRegion(
                         StoreClipRegion(st, n, RegionOr(ClipRegionOf(st, n), tmp)), n),
              ret |-> TRUE]
    ELSE [st |-> st, ret |-> FALSE]

\* Snapshot::clipRegionXor
ClipRegionXor(st, n, l, t, r, b) ==
    IF STENCIL_BUFFER_SIZE # 0
    THEN LET tmp == AndroidRect(l, t, r, b)
         IN  [st |-> CopyClipRectFromRegion(
                         StoreClipRegion(st, n, RegionXor(ClipRegionOf(st, n), tmp)), n),
              ret |-> TRUE]
    ELSE [st |-> st, ret |-> FALSE]

\* Snapshot::clipRegionAnd
ClipRegionAnd(st, n, l, t, r, b) ==
    IF STENCIL_BUFFER_SIZE # 0
    THEN LET tmp == AndroidRect(l, t, r, b)
         IN  [st |-> CopyClipRectFromRegion(
                         StoreClipRegion(st, n, RegionAnd(ClipRegionOf(st, n), tmp)), n),
              ret |-> TRUE]
    ELSE [st |-> st, ret |-> FALSE]

\* Snapshot::clipRegionNand
ClipRegionNand(st, n, l, t, r, b) ==
    IF STENCIL_BUFFER_SIZE # 0
    THEN LET tmp == AndroidRect(l, t, r, b)
         IN  [st |-> CopyClipRectFromRegion(
                         StoreClipRegion(st, n, RegionSubtract(ClipRegionOf(st, n), tmp)), n),
              ret |-> TRUE]
    ELSE [st |-> st, ret |-> FALSE]

\* setClip that forgets to discard the region.
SetClipKeepsRegion(st, n, l, t, r, b) ==
    [StoreClipRect(st, n, MkRect(l, t, r, b))
        EXCEPT ![n].flags = @ \cup { "kFlagClipSet" }]

\* Snapshot::setClip
SetClipOn(st, n, l, t, r, b) ==
    LET st1 == StoreClipRect(st, n, MkRect(l, t, r, b))
        st2 == IF STENCIL_BUFFER_SIZE # 0 /\ st1[n].clipRegion # NULL
               THEN [StoreClipRegion(st1, n, {}) EXCEPT ![n].clipRegion = NULL]
               ELSE st1
    IN  [st2 EXCEPT ![n].flags = @ \cup { "kFlagClipSet" }]

\* Snapshot::clipTransformed, case SkRegion::kDifference_Op
ClipDifference(st, n, r) ==
    ClipRegionNand(EnsureClipRegion(st, n), n, r.left, r.top, r.right, r.bottom)

\* The intersect case marking the node empty when nothing is left.
ClipIntersectMarksEmpty(st, n, r) ==
    IF st[n].clipRegion # NULL
    THEN ClipRegionOr(st, n, r.left, r.top, r.right, r.bottom)
    ELSE LET i == RectIntersect(ClipRectOf(st, n), r)
         IN  IF ~i.ret
             THEN [st |-> [StoreClipRect(st, n, EmptyRect) EXCEPT ![n].empty = TRUE],
                   ret |-> TRUE]
             ELSE [st |-> StoreClipRect(st, n, i.rect), ret |-> TRUE]

\* The intersect case with the region combined by AND.
ClipIntersectAnd(st, n, r) ==
    IF st[n].clipRegion # NULL
    THEN ClipRegionAnd(st, n, r.left, r.top, r.right, r.bottom)
    ELSE LET i == RectIntersect(ClipRectOf(st, n), r)
         IN  IF ~i.ret
             THEN [st |-> StoreClipRect(st, n, EmptyRect), ret |-> TRUE]
             ELSE [st |-> StoreClipRect(st, n, i.rect), ret |-> TRUE]

\* The intersect case without the setEmpty of an empty intersection.
ClipIntersectKeepsRect(st, n, r) ==
    IF st[n].clipRegion # NULL
    THEN ClipRegionOr(st, n, r.left, r.top, r.right, r.bottom)
    ELSE [st |-> StoreClipRect(st, n, RectIntersect(ClipRectOf(st, n), r).rect),
          ret |-> TRUE]

\* Snapshot::clipTransformed, case SkRegion::kIntersect_Op
ClipIntersect(st, n, r) ==
    IF st[n].clipRegion # NULL
    THEN ClipRegionOr(st, n, r.left, r.top, r.right, r.bottom)
    ELSE LET i == RectIntersect(ClipRectOf(st, n), r)
         IN  IF ~i.ret
             THEN [st |-> StoreClipRect(st, n, EmptyRect), ret |-> TRUE]
             ELSE [st |-> StoreClipRect(st, n, i.rect), ret |-> TRUE]

\* The union case always taking the region path.
ClipUnionViaRegion(st, n, r, u) ==
    ClipRegionOr(EnsureClipRegion(st, n), n, r.left, r.top, r.right, r.bottom)

\* Snapshot::clipTransformed, case SkRegion::kUnion_Op.  u is what
\* Rect::unionWith returns.
ClipUnion(st, n, r, u) ==
    IF st[n].clipRegion # NULL
    THEN ClipRegionAnd(st, n, r.left, r.top, r.right, r.bottom)
    ELSE [st |-> StoreClipRect(st, n, RectUnionWith(ClipRectOf(st, n), r)),
          ret |-> u]

\* Snapshot::clipTransformed, case SkRegion::kXOR_Op
ClipXor(st, n, r) ==
    ClipRegionXor(EnsureClipRegion(st, n), n, r.left, r.top, r.right, r.bottom)

\* The reverse-difference case handled like a difference.
ClipReverseDifferenceAsDifference(st, n, r) ==
    ClipRegionNand(EnsureClipRegion(st, n), n, r.left, r.top, r.right, r.bottom)

\* Snapshot::clipTransformed, case SkRegion::kReverseDifference_Op
ClipReverseDifference(st, n, r) == [st |-> st, ret |-> FALSE]

\* Snapshot::clipTransformed, case SkRegion::kReplace_Op
ClipReplace(st, n, r) ==
    [st |-> SetClipOn(st, n, r.left, r.top, r.right, r.bottom), ret |-> TRUE]

\* The switch of Snapshot::clipTransformed.
ClipSwitch(st, n, r, op, u) ==
    CASE op = "kDifference_Op" -> ClipDifference(st, n, r)
      [] op = "kIntersect_Op" -> ClipIntersect(st, n, r)
      [] op = "kUnion_Op" -> ClipUnion(st, n, r, u)
      [] op = "kXOR_Op" -> ClipXor(st, n, r)
      [] op = "kReverseDifference_Op" -> ClipReverseDifference(st, n, r)
      [] op = "kReplace_Op" -> ClipReplace(st, n, r)

\* Snapshot::clipTransformed
ClipTransformedOn(st, n, r, op, u) ==
    LET res == ClipSwitch(st, n, r, op, u)
    IN  IF res.ret
        THEN [st |-> [res.st EXCEPT ![n].flags = @ \cup { "kFlagClipSet" }],
              ret |-> TRUE]
        ELSE res

\* clip that hands its rectangle over without mapping it.
ClipOnUnmapped(st, n, l, t, r, b, op, u) ==
    ClipTransformedOn(st, n, MkRect(l, t, r, b), op, u)

\* Snapshot::clip
ClipOn(st, n, l, t, r, b, op, u) ==
    ClipTransformedOn(st, n, MapRect(TransformOf(st, n), MkRect(l, t, r, b)), op, u)

\* Snapshot::getLocalClip: the rectangle left in mLocalClip and returned, when
\* inverse is what loadInverse produced.
LocalClipVia(st, n, inverse) == MapRect(inverse, ClipRectOf(st, n))

\* Snapshot::getLocalClip under an invertible transform.
GetLocalClipOn(st, n) == LocalClipVia(st, n, LoadInverse(TransformOf(st, n)))

\* Snapshot::resetClip
ResetClipOn(st, n, l, t, r, b) ==
    SetClipOn([st EXCEPT ![n].clipRect = n], n, l, t, r, b)

\* resetTransform that loads the translation through the pointer it has.
ResetTransformInPlace(st, n, x, y, z) ==
    [st EXCEPT ![st[n].transform].mTransformRoot = LoadTranslate(x, y, z)]

\* Snapshot::resetTransform
ResetTransformOn(st, n, x, y, z) ==
    [st EXCEPT ![n].transform = n, ![n].mTransformRoot = LoadTranslate(x, y, z)]

\* isIgnored that looks at invisible only.
IsIgnoredInvisibleOnly(st, n) == st[n].invisible

\* Snapshot::isIgnored
IsIgnored(st, n) == st[n].invisible \/ st[n].empty

----------------------------------------------------------------------------
(* What a node shows of its transform and clip *)

View(st, n) ==
    [ transform |-> TransformOf(st, n),
      clipRect |-> ClipRectOf(st, n),
      hasRegion |-> st[n].clipRegion # NULL,
      clipRegion |-> ClipRegionOf(st, n),
      flags |-> st[n].flags ]

ClipView(st, n) ==
    [ clipRect |-> ClipRectOf(st, n),
      hasRegion |-> st[n].clipRegion # NULL,
      clipRegion |-> ClipRegionOf(st, n) ]

NoCall == [name |-> "none", op |-> "none", hadRegion |-> FALSE, ret |-> FALSE,
           local |-> EmptyRect]

----------------------------------------------------------------------------
(* Initial states *)

InitWith(stencil) ==
    /\ STENCIL_BUFFER_SIZE = stencil
    /\ \E h \in UninitInts : stack = << RootSnapshot(h) >>
    /\ call = NoCall
    /\ hist = << [saveFlags |-> {}, atPush |-> <<>>] >>

Init == InitWith(8)

InitNoStencil == InitWith(0)

----------------------------------------------------------------------------
(* Operations on the current node *)

\* What Rect::unionWith may return; only the union case reads it.
UnionResults(op) == IF op = "kUnion_Op" THEN BOOLEAN ELSE { FALSE }

\* push: a new Snapshot built from the current one
Push(saveFlags, depth) ==
    /\ Top < depth
    /\ stack' = Append(stack, ChildSnapshot(stack, Top, Top + 1, saveFlags))
    /\ hist' = Append(hist, [saveFlags |-> saveFlags, atPush |-> View(stack, Top)])
    /\ call' = [NoCall EXCEPT !.name = "push"]
    /\ UNCHANGED STENCIL_BUFFER_SIZE

\* pop: the current Snapshot is discarded and its parent resumes
Pop ==
    /\ Top > 1
    /\ stack' = SubSeq(stack, 1, Top - 1)
    /\ hist' = SubSeq(hist, 1, Top - 1)
    /\ call' = [NoCall EXCEPT !.name = "pop"]
    /\ UNCHANGED STENCIL_BUFFER_SIZE

Clip(r, op) ==
    /\ \E u \in UnionResults(op) :
         LET res == ClipOn(stack, Top, r.left, r.top, r.right, r.bottom, op, u)
         IN  /\ stack' = res.st
             /\ call' = [NoCall EXCEPT !.name = "clip", !.op = op,
                                         !.hadRegion = stack[Top].clipRegion # NULL,
                                         !.ret = res.ret]
    /\ UNCHANGED <<STENCIL_BUFFER_SIZE, hist>>

ClipTransformed(r, op) ==
    /\ \E u \in UnionResults(op) :
         LET res == ClipTransformedOn(stack, Top, r, op, u)
         IN  /\ stack' = res.st
             /\ call' = [NoCall EXCEPT !.name = "clipTransformed", !.op = op,
                                         !.hadRegion = stack[Top].clipRegion # NULL,
                                         !.ret = res.ret]
    /\ UNCHANGED <<STENCIL_BUFFER_SIZE, hist>>

SetClip(r) ==
    /\ stack' = SetClipOn(stack, Top, r.left, r.top, r.right, r.bottom)
    /\ call' = [NoCall EXCEPT !.name = "setClip",
                               !.hadRegion = stack[Top].clipRegion # NULL]
    /\ UNCHANGED <<STENCIL_BUFFER_SIZE, hist>>

ResetClip(r) ==
    /\ stack' = ResetClipOn(stack, Top, r.left, r.top, r.right, r.bottom)
    /\ call' = [NoCall EXCEPT !.name = "resetClip",
                               !.hadRegion = stack[Top].clipRegion # NULL]
    /\ UNCHANGED <<STENCIL_BUFFER_SIZE, hist>>

ResetTransform(o) ==
    /\ stack' = ResetTransformOn(stack, Top, o[1], o[2], o[3])
    /\ call' = [NoCall EXCEPT !.name = "resetTransform"]
    /\ UNCHANGED <<STENCIL_BUFFER_SIZE, hist>>

GetLocalClip ==
    /\ \E inverse \in Inverses(TransformOf(stack, Top)) :
         call' = [NoCall EXCEPT !.name = "getLocalClip",
                                 !.local = LocalClipVia(stack, Top, inverse)]
    /\ UNCHANGED stack
    /\ UNCHANGED <<STENCIL_BUFFER_SIZE, hist>>

\* The renderer scales the current transform by k (snapshot->transform->scale)
\* through the pointer, whoever owns the storage.
RendererScale(k) ==
    /\ TransformOf(stack, Top).scale # k
    /\ stack' = [stack EXCEPT ![stack[Top].transform].mTransformRoot = Scaled(@, k)]
    /\ call' = [NoCall EXCEPT !.name = "scale"]
    /\ UNCHANGED <<STENCIL_BUFFER_SIZE, hist>>

\* Snapshot::isIgnored called on the current node.
IsIgnoredCall ==
    /\ call' = [NoCall EXCEPT !.name = "isIgnored", !.ret = IsIgnored(stack, Top)]
    /\ UNCHANGED <<stack, STENCIL_BUFFER_SIZE, hist>>

\* The renderer sets one of the public visibility members of the current
\* node (snapshot->invisible = true, snapshot->empty = true).  Snapshot.cpp
\* assigns them in its constructors only.
RendererMark(member) ==
    /\ ~stack[Top][member]
    /\ stack' = [stack EXCEPT ![Top][member] = TRUE]
    /\ call' = [NoCall EXCEPT !.name = "mark"]
    /\ UNCHANGED <<STENCIL_BUFFER_SIZE, hist>>

\* The renderer redirects the current node to an offscreen layer: it sets the
\* layer flags and the public members that describe the target.
RendererTargetLayer ==
    /\ "kFlagFboTarget" \notin stack[Top].flags
    /\ stack' = [stack EXCEPT ![Top].flags = @ \cup { "kFlagIsLayer", "kFlagFboTarget" },
                              ![Top].layer = LayerTarget.layer,
                              ![Top].fbo = LayerTarget.fbo,
                              ![Top].region = LayerTarget.region,
                              ![Top].viewport = LayerTarget.viewport,
                              ![Top].height = LayerTarget.height,
                              ![Top].alpha = LayerTarget.alpha]
    /\ call' = [NoCall EXCEPT !.name = "targetLayer"]
    /\ UNCHANGED <<STENCIL_BUFFER_SIZE, hist>>

\* The chain under every save mode.
Next ==
    \/ \E f \in SaveFlagSets : Push(f, MaxDepth)
    \/ Pop
    \/ \E r \in StackRects, op \in Ops : Clip(r, op)
    \/ \E r \in StackRects, op \in Ops : ClipTransformed(r, op)
    \/ \E r \in StackRects : SetClip(r)
    \/ \E r \in StackRects : ResetClip(r)
    \/ \E o \in StackOffsets : ResetTransform(o)
    \/ GetLocalClip

\* A deeper chain whose saves all copy the matrix and the clip.
NextSave ==
    \/ Push({ "kMatrix_SaveFlag", "kClip_SaveFlag" }, MaxSaveDepth)
    \/ Pop
    \/ \E r \in StackRects, op \in Ops : Clip(r, op)
    \/ \E r \in StackRects, op \in Ops : ClipTransformed(r, op)
    \/ \E r \in StackRects : SetClip(r)
    \/ \E r \in StackRects : ResetClip(r)
    \/ \E o \in StackOffsets : ResetTransform(o)
    \/ GetLocalClip

\* One Snapshot, over the full set of rectangles and translations.
NextClip ==
    \/ \E r \in ClipRects, op \in Ops : Clip(r, op)
    \/ \E r \in ClipRects, op \in Ops : ClipTransformed(r, op)
    \/ \E r \in ClipRects : SetClip(r)
    \/ \E r \in ClipRects : ResetClip(r)
    \/ \E o \in ClipOffsets : ResetTransform(o)
    \/ GetLocalClip

\* Transforms: translations with x and y parts, a matrix without inverse, and
\* clips made in caller space, on a chain under every save mode.
NextXform ==
    \/ \E f \in SaveFlagSets : Push(f, MaxXformDepth)
    \/ Pop
    \/ \E r \in XformRects, op \in XformOps : Clip(r, op)
    \/ \E r \in XformRects : SetClip(r)
    \/ \E o \in XformOffsets : ResetTransform(o)
    \/ RendererScale(0)
    \/ GetLocalClip

\* The members a node carries besides transform and clip, written by the
\* renderer and copied by the constructor, on a chain under every save mode.
NextNode ==
    \/ \E f \in SaveFlagSets : Push(f, MaxNodeDepth)
    \/ Pop
    \/ \E r \in NodeRects, op \in Ops : Clip(r, op)
    \/ \E r \in NodeRects, op \in Ops : ClipTransformed(r, op)
    \/ \E r \in NodeRects : SetClip(r)
    \/ \E r \in NodeRects : ResetClip(r)
    \/ \E o \in StackOffsets : ResetTransform(o)
    \/ GetLocalClip
    \/ IsIgnoredCall
    \/ \E member \in { "invisible", "empty" } : RendererMark(member)
    \/ RendererTargetLayer

Spec == Init /\ [][Next]_vars

SpecNode == Init /\ [][NextNode]_vars

SpecXform == Init /\ [][NextXform]_vars

SpecSave == Init /\ [][NextSave]_vars

SpecClip == Init /\ [][NextClip]_vars

SpecNoStencil == InitNoStencil /\ [][Next]_vars

----------------------------------------------------------------------------
(* Vocabulary of the properties *)

AllRects == ClipRects \cup StackRects

FullCopy == { "kMatrix_SaveFlag", "kClip_SaveFlag" }

\* The step is a call of clip or clipTransformed with operation op.
ClipCallOf(op) == call'.name \in { "clip", "clipTransformed" } /\ call'.op = op

\* The step is clipTransformed(r, op), or clip(r, op), on the current node.
StepClipTransformed(r, op) ==
    call'.name = "clipTransformed" /\ call'.op = op /\ ClipTransformed(r, op)

StepClip(r, op) == call'.name = "clip" /\ call'.op = op /\ Clip(r, op)

\* The step is a call that changes the clip of the current node.
ClipChangingCall ==
    \/ call'.name = "setClip"
    \/ \E op \in Ops \ { "kReverseDifference_Op" } : ClipCallOf(op)

----------------------------------------------------------------------------
(* C1: a clip-changing call (clip or clipTransformed with intersect, union, *)
(* difference, xor or replace, or setClip) on a node built without the      *)
(* preserve-clip bit leaves its parent's clip rectangle and clip region     *)
(* (null-ness and contents) as they were.                                   *)
C1_ParentClipUntouched ==
    [][ ( /\ Top > 1
          /\ "kClip_SaveFlag" \notin hist[Top].saveFlags
          /\ ClipChangingCall )
        => ClipView(stack', Top - 1) = ClipView(stack, Top - 1) ]_vars

(* C2: resetClip(rect) leaves the node with clipRect on its own storage and *)
(* equal to rect, clipRegion null and the clip-set flag set, and leaves the *)
(* parent's clip rectangle and clip region unchanged, also when the node    *)
(* was aliasing a parent that holds an active region.                       *)
C2_ResetClipDetaches ==
    [][ \A r \in AllRects :
          (call'.name = "resetClip" /\ ResetClip(r)) =>
            /\ stack'[Top].clipRect = Top
            /\ ClipRectOf(stack', Top) = r
            /\ stack'[Top].clipRegion = NULL
            /\ "kFlagClipSet" \in stack'[Top].flags
            /\ Top > 1 => ClipView(stack', Top - 1) = ClipView(stack, Top - 1) ]_vars

(* C3: when a node pushed with both the preserve-matrix and preserve-clip   *)
(* bits is popped, whatever calls were made on it and on its fully copying  *)
(* descendants, the parent's transform, clip rectangle, clip region and     *)
(* flags are those it had at the push.                                      *)
C3_RestoreFindsParent ==
    [][ (call'.name = "pop" /\ hist[Top].saveFlags = FullCopy)
        => View(stack', Top - 1) = hist[Top].atPush ]_vars

\* A grandchild that copied everything now differs from what its parent
\* showed at the push in transform, rectangle, region and flags.
C3_Witness ==
    /\ Top = 3
    /\ \A k \in 2..3 : hist[k].saveFlags = FullCopy
    /\ View(stack, 3).transform # hist[3].atPush.transform
    /\ View(stack, 3).clipRect # hist[3].atPush.clipRect
    /\ View(stack, 3).hasRegion # hist[3].atPush.hasRegion
    /\ View(stack, 3).flags # hist[3].atPush.flags
    /\ View(stack, 2) # hist[2].atPush

----------------------------------------------------------------------------
(* Exact geometry, in half pixels, to state what a clip should become *)

\* The half-pixel squares a float rectangle covers.
Covered(rc) ==
    { <<x, y>> \in (rc.left .. rc.right - 1) \X (rc.top .. rc.bottom - 1) : TRUE }

\* The bounding rectangle of a non-empty set of squares.
BoundsOf(S) ==
    LET xs == { c[1] : c \in S }
        ys == { c[2] : c \in S }
    IN  MkRect(SetMin(xs), SetMin(ys), SetMax(xs) + 1, SetMax(ys) + 1)

IsRectangle(S) == S # {} /\ S = Covered(BoundsOf(S))

\* The rectangle a clip or clipTransformed call hands to the switch.
Mapped(r) == MapRect(TransformOf(stack, Top), r)

\* The float rectangle with the int rectangle's edges.
FloatRect(ar) ==
    MkRect(ToFloat(ar.left), ToFloat(ar.top), ToFloat(ar.right), ToFloat(ar.bottom))

\* The current node's clip after a region operation whose result is res.
CollapsedTo(res) ==
    IF res = {}
    THEN stack'[Top].clipRegion = NULL /\ ClipRectOf(stack', Top) = EmptyRect
    ELSE /\ ClipRectOf(stack', Top) = FloatRect(RegionBounds(res))
         /\ IF RegionIsRect(res)
            THEN stack'[Top].clipRegion = NULL
            ELSE stack'[Top].clipRegion # NULL /\ ClipRegionOf(stack', Top) = res

----------------------------------------------------------------------------
(* C4: with region support enabled, a difference op with rectangle r on a   *)
(* node that owns its clip and has the rectangle clip R (no region) returns *)
(* true and leaves clipRect equal to the bounds of R minus r; the region is *)
(* null afterwards when R minus r is a single rectangle or empty (clipRect  *)
(* empty then) and non-null when it is non-empty and non-rectangular.       *)
C4_After(R, r) ==
    LET d == Covered(R) \ Covered(r)
    IN  /\ call'.ret
        /\ IF d = {}
           THEN RectIsEmpty(ClipRectOf(stack', Top)) /\ stack'[Top].clipRegion = NULL
           ELSE /\ ClipRectOf(stack', Top) = BoundsOf(d)
                /\ stack'[Top].clipRegion = NULL <=> IsRectangle(d)

C4_DifferenceExact ==
    [][ \A r \in AllRects :
          ( /\ ClipCallOf("kDifference_Op")
            /\ STENCIL_BUFFER_SIZE # 0
            /\ stack[Top].clipRect = Top
            /\ stack[Top].clipRegion = NULL )
          => /\ StepClipTransformed(r, "kDifference_Op") => C4_After(ClipRectOf(stack, Top), r)
             /\ StepClip(r, "kDifference_Op") => C4_After(ClipRectOf(stack, Top), Mapped(r))
      ]_vars

(* C5: when a clip region is active on the node, an intersect op ORs the    *)
(* new rectangle into the region and a union op ANDs it in, each followed   *)
(* by the collapse and each returning true.  The rectangle is the one the   *)
(* region receives, with int32 edges.                                       *)
C5_After(res) == call'.ret /\ CollapsedTo(res)

C6_After(R, r) ==
    LET i == Covered(R) \cap Covered(r)
    IN  /\ call'.ret
        /\ stack'[Top].clipRegion = NULL
        /\ "kFlagClipSet" \in stack'[Top].flags
        /\ ClipRectOf(stack', Top) = IF i = {} THEN EmptyRect ELSE BoundsOf(i)

C6_RectIntersect ==
    [][ \A r \in AllRects :
          (ClipCallOf("kIntersect_Op") /\ stack[Top].clipRegion = NULL)
          => /\ StepClipTransformed(r, "kIntersect_Op") => C6_After(ClipRectOf(stack, Top), r)
             /\ StepClip(r, "kIntersect_Op") => C6_After(ClipRectOf(stack, Top), Mapped(r))
      ]_vars

\* The 2x2 square was intersected with the rectangle that sticks out of its
\* top right: (0,0,4,4) and (2,-1,6,2) leave (2,0,4,2).
C6_Witness ==
    /\ call.name \in { "clip", "clipTransformed" } /\ call.op = "kIntersect_Op"
    /\ call.ret /\ ~call.hadRegion
    /\ stack[Top].clipRegion = NULL
    /\ ClipRectOf(stack, Top) = MkRect(2, 0, 4, 2)

(* C7: a union op on a node with no active region leaves clipRegion null    *)
(* and makes clipRect the bounding box of the old clipRect and r.           *)
C7_After(R, r) ==
    /\ stack'[Top].clipRegion = NULL
    /\ ClipRectOf(stack', Top) =
         MkRect(Min(R.left, r.left), Min(R.top, r.top),
                Max(R.right, r.right), Max(R.bottom, r.bottom))

C7_RectUnion ==
    [][ \A r \in AllRects :
          (ClipCallOf("kUnion_Op") /\ stack[Top].clipRegion = NULL)
          => /\ StepClipTransformed(r, "kUnion_Op") => C7_After(ClipRectOf(stack, Top), r)
             /\ StepClip(r, "kUnion_Op") => C7_After(ClipRectOf(stack, Top), Mapped(r))
      ]_vars

\* A union has just been made on a rectangle clip, and the box spans the 2x2
\* square and the rectangle that sticks out of it.
C7_Witness ==
    /\ call.name \in { "clip", "clipTransformed" } /\ call.op = "kUnion_Op"
    /\ ~call.hadRegion
    /\ stack[Top].clipRegion = NULL
    /\ ClipRectOf(stack, Top) = MkRect(0, -1, 6, 4)

(* C8: setClip(rect) and a clip call with the replace op leave the node     *)
(* with clipRegion null, clipRect equal to the new bounds (for clip, the    *)
(* bounds mapped through the current transform) and the clip-set flag set,  *)
(* whatever the rectangle or region before; the replace op returns true.    *)
C8_After(r) ==
    /\ stack'[Top].clipRegion = NULL
    /\ ClipRectOf(stack', Top) = r
    /\ "kFlagClipSet" \in stack'[Top].flags

C8_SetAndReplace ==
    [][ \A r \in AllRects :
          (call'.name = "setClip" \/ ClipCallOf("kReplace_Op"))
          => /\ (call'.name = "setClip" /\ SetClip(r)) => C8_After(r)
             /\ StepClipTransformed(r, "kReplace_Op") => call'.ret /\ C8_After(r)
             /\ StepClip(r, "kReplace_Op") => call'.ret /\ C8_After(Mapped(r))
      ]_vars

\* A replace through a translating transform has just been made on a node
\* whose region was active: (0,0,2,2) moved by (1,0) is the clip.
C8_Witness ==
    /\ call.name = "clip" /\ call.op = "kReplace_Op" /\ call.ret
    /\ call.hadRegion
    /\ TransformOf(stack, Top).tx # 0
    /\ stack[Top].clipRegion = NULL
    /\ ClipRectOf(stack, Top) = MkRect(1, 0, 3, 2)

(* C9: a clip call with the reverse-difference op, whatever the rectangle   *)
(* and the node's state (rectangle only or region active, own or aliased    *)
(* storage), returns false and leaves clipRect, clipRegion, the flags and   *)
(* the transform unchanged.                                                 *)
C9_ReverseDifferenceNoOp ==
    [][ ClipCallOf("kReverseDifference_Op")
        => /\ ~call'.ret
           /\ View(stack', Top) = View(stack, Top)
           /\ stack' = stack ]_vars

\* A reverse-difference was issued on a node that aliases its parent's active
\* region and has not had its clip set.
C9_Witness ==
    /\ call.name \in { "clip", "clipTransformed" }
    /\ call.op = "kReverseDifference_Op"
    /\ ~call.ret /\ call.hadRegion
    /\ Top > 1
    /\ stack[Top].clipRegion = Top - 1
    /\ stack[Top].clipRect = Top - 1
    /\ ClipRegionOf(stack, Top) # {}
    /\ "kFlagClipSet" \notin stack[Top].flags

(* C10: with the region-mode switch disabled, a difference or xor op        *)
(* returns false and leaves clipRect and the flags unchanged, and           *)
(* clipRegion is null on every node in every reachable state.               *)
C10_RegionModeDisabled ==
    /\ [](STENCIL_BUFFER_SIZE = 0
          => \A n \in 1..Top : stack[n].clipRegion = NULL)
    /\ [][ (STENCIL_BUFFER_SIZE = 0
            /\ (ClipCallOf("kDifference_Op") \/ ClipCallOf("kXOR_Op")))
           => /\ ~call'.ret
              /\ ClipRectOf(stack', Top) = ClipRectOf(stack, Top)
              /\ stack'[Top].flags = stack[Top].flags ]_vars

\* With the switch disabled, a difference was refused on a child whose clip is
\* a non-empty rectangle.
C10_Witness ==
    /\ STENCIL_BUFFER_SIZE = 0
    /\ call.name \in { "clip", "clipTransformed" } /\ call.op = "kDifference_Op"
    /\ ~call.ret
    /\ Top > 1
    /\ ~RectIsEmpty(ClipRectOf(stack, Top))

----------------------------------------------------------------------------
\* The rectangle rc moved by (dx, dy).
Translated(rc, dx, dy) ==
    MkRect(rc.left + dx, rc.top + dy, rc.right + dx, rc.bottom + dy)

(* C11: resetTransform(x, y, z) leaves the node's transform on its own      *)
(* storage and equal to the pure translation (x, y, z), and the parent's    *)
(* transform as it was, also when the node was aliasing it; a getLocalClip  *)
(* made next returns the clip rectangle moved by (-x, -y); and getLocalClip *)
(* itself changes neither clipRect nor the transform.                       *)
C11_ResetTransform ==
    [][ /\ \A o \in XformOffsets \cup StackOffsets \cup ClipOffsets :
             (call'.name = "resetTransform" /\ ResetTransform(o)) =>
               /\ stack'[Top].transform = Top
               /\ TransformOf(stack', Top) = [scale |-> 1, tx |-> o[1], ty |-> o[2], tz |-> o[3]]
               /\ Top > 1 => TransformOf(stack', Top - 1) = TransformOf(stack, Top - 1)
               /\ \A inverse \in Inverses(TransformOf(stack', Top)) :
                    LocalClipVia(stack', Top, inverse)
                      = Translated(ClipRectOf(stack', Top), -o[1], -o[2])
        /\ call'.name = "getLocalClip" =>
               /\ ClipRectOf(stack', Top) = ClipRectOf(stack, Top)
               /\ TransformOf(stack', Top) = TransformOf(stack, Top)
               /\ stack' = stack
               /\ (TransformOf(stack, Top).scale = 1 =>
                     call'.local = Translated(ClipRectOf(stack, Top),
                                              -TransformOf(stack, Top).tx,
                                              -TransformOf(stack, Top).ty))
      ]_vars

\* A child built without the preserve-matrix bit was reset to the translation
\* (1,1.5,0) while its parent keeps another transform, and with the clip
\* (2,2,4,4) its local clip came back as (1,0.5,3,2.5).
C11_Witness ==
    /\ Top = 2
    /\ "kMatrix_SaveFlag" \notin hist[2].saveFlags
    /\ stack[2].transform = 2
    /\ TransformOf(stack, 2) = LoadTranslate(2, 3, 0)
    /\ TransformOf(stack, 1) = LoadTranslate(1, 0, 2)
    /\ ClipRectOf(stack, 2) = MkRect(4, 4, 8, 8)
    /\ call.name = "getLocalClip"
    /\ call.local = MkRect(2, 1, 6, 5)

----------------------------------------------------------------------------
(* C12: isIgnored returns true when invisible is true, whatever empty is,   *)
(* true when empty is true, whatever invisible is, and false when both are  *)
(* false; and it changes nothing of the chain.                              *)
C12_IsIgnored ==
    [][ call'.name = "isIgnored" =>
          /\ stack[Top].invisible => call'.ret
          /\ stack[Top].empty => call'.ret
          /\ (~stack[Top].invisible /\ ~stack[Top].empty) => ~call'.ret
          /\ stack' = stack ]_vars

\* isIgnored has just answered true on a node that is empty and not invisible.
C12_Witness ==
    /\ call.name = "isIgnored" /\ call.ret
    /\ stack[Top].empty /\ ~stack[Top].invisible

(* C13: a child built from parent P, whatever the saveFlags, has P's fbo,   *)
(* invisible, viewport, height and alpha, has previous = P, empty = false   *)
(* (also when P.empty is true) and layer = null; P is not modified.         *)
C13_ChildCopiesMembers ==
    [][ call'.name = "push" =>
          LET P == stack[Top]
              c == stack'[Top + 1]
          IN  /\ c.fbo = P.fbo
              /\ c.invisible = P.invisible
              /\ c.viewport = P.viewport
              /\ c.height = P.height
              /\ c.alpha = P.alpha
              /\ c.previous = Top
              /\ c.empty = FALSE
              /\ c.layer = NULL
              /\ SubSeq(stack', 1, Top) = stack ]_vars

\* A child has just been built, aliasing, from a parent that is empty,
\* invisible and redirected to a layer.
C13_Witness ==
    /\ call.name = "push" /\ Top = 2
    /\ hist[2].saveFlags = {}
    /\ stack[1].empty /\ stack[1].invisible
    /\ stack[1].layer = LayerTarget.layer /\ stack[1].fbo = LayerTarget.fbo
    /\ stack[2].fbo = LayerTarget.fbo /\ stack[2].viewport = LayerTarget.viewport
    /\ stack[2].alpha = LayerTarget.alpha
    /\ ~stack[2].empty /\ stack[2].layer = NULL

(* C14: a child just built has the layer-target flag exactly when its       *)
(* parent has it; then its region is the parent's region, otherwise its     *)
(* region is null; and it has no other flag of the parent, the clip-set     *)
(* flag in particular.                                                      *)
C14_LayerTargetInherited ==
    [][ call'.name = "push" =>
          LET P == stack[Top]
              c == stack'[Top + 1]
          IN  /\ "kFlagFboTarget" \in c.flags <=> "kFlagFboTarget" \in P.flags
              /\ "kFlagFboTarget" \in P.flags => c.region = P.region
              /\ "kFlagFboTarget" \notin P.flags => c.region = NULL
              /\ c.flags \subseteq { "kFlagFboTarget" } ]_vars

\* A child has just been built from a parent that targets a layer and has
\* its clip set: it has the layer-target flag alone and the parent's region.
C14_Witness ==
    /\ call.name = "push" /\ Top = 2
    /\ { "kFlagFboTarget", "kFlagIsLayer", "kFlagClipSet" } \subseteq stack[1].flags
    /\ stack[1].region # NULL
    /\ stack[2].flags = { "kFlagFboTarget" }
    /\ stack[2].region = stack[1].region

C16_RegionConsistent ==
    \A n \in 1..Top :
        stack[n].clipRegion # NULL =>
            LET reg == ClipRegionOf(stack, n)
            IN  /\ ~RegionIsEmpty(reg)
                /\ ~RegionIsRect(reg)
                /\ ClipRectOf(stack, n) = FloatRect(RegionBounds(reg))

\* The half-pixel squares the pixel cells of a region cover.
CoveredByRegion(reg) ==
    UNION { Covered(FloatRect(MkRect(c[1], c[2], c[1] + 1, c[2] + 1))) : c \in reg }

\* The clip of the current node as a set of half-pixel squares.
ClipCovered ==
    IF stack[Top].clipRegion # NULL
    THEN CoveredByRegion(ClipRegionOf(stack, Top))
    ELSE Covered(ClipRectOf(stack, Top))

(* C17: with region support enabled, an xor op with rectangle r on a node   *)
(* that owns its clip returns true and leaves clipRect equal to the bounds  *)
(* of (old clip XOR r), with clipRegion non-null afterwards exactly when    *)
(* that result is non-empty and not a rectangle; when it is empty, clipRect *)
(* is empty and clipRegion null.                                            *)
C17_After(old, r) ==
    LET x == (old \ Covered(r)) \cup (Covered(r) \ old)
    IN  /\ call'.ret
        /\ IF x = {}
           THEN RectIsEmpty(ClipRectOf(stack', Top)) /\ stack'[Top].clipRegion = NULL
           ELSE /\ ClipRectOf(stack', Top) = BoundsOf(x)
                /\ stack'[Top].clipRegion # NULL <=> ~IsRectangle(x)

C17_XorExact ==
    [][ \A r \in AllRects :
          ( /\ ClipCallOf("kXOR_Op")
            /\ STENCIL_BUFFER_SIZE # 0
            /\ stack[Top].clipRect = Top
            /\ stack[Top].clipRegion \in { NULL, Top } )
          => /\ StepClipTransformed(r, "kXOR_Op") => C17_After(ClipCovered, r)
             /\ StepClip(r, "kXOR_Op") => C17_After(ClipCovered, Mapped(r))
      ]_vars

ClipCall == call'.name \in { "clip", "clipTransformed", "setClip", "resetClip" }

Members(st, n) ==
    [ invisible |-> st[n].invisible, empty |-> st[n].empty, alpha |-> st[n].alpha,
      fbo |-> st[n].fbo, viewport |-> st[n].viewport, height |-> st[n].height,
      layer |-> st[n].layer, region |-> st[n].region, previous |-> st[n].previous ]

(* C20: clip, clipTransformed, setClip, resetClip, resetTransform and       *)
(* getLocalClip leave invisible, empty, alpha, fbo, viewport, height,       *)
(* layer, region and previous of the node (and of its ancestors) as they    *)
(* were, so isIgnored answers the same before and after, also after an      *)
(* intersect or a difference that leaves the clip rectangle empty.          *)
C20_ClipCallsKeepMembers ==
    [][ (ClipCall \/ call'.name \in { "resetTransform", "getLocalClip" }) =>
          /\ \A n \in 1..Top : Members(stack', n) = Members(stack, n)
          /\ IsIgnored(stack', Top) = IsIgnored(stack, Top) ]_vars

\* An intersect has just left the clip rectangle of a child empty; the child
\* targets a layer, is neither invisible nor empty and is not ignored.
C20_Witness ==
    /\ call.name \in { "clip", "clipTransformed" } /\ call.op = "kIntersect_Op"
    /\ call.ret
    /\ Top = 2
    /\ RectIsEmpty(ClipRectOf(stack, Top))
    /\ "kFlagFboTarget" \in stack[Top].flags /\ stack[Top].fbo = LayerTarget.fbo
    /\ ~stack[Top].empty /\ ~stack[Top].invisible
    /\ ~IsIgnored(stack, Top)

====
